---- MODULE Spec2Model ----
(***************************************************************************)
(* Model of theia::ReconstructionBuilder                                   *)
(* (src/src/theia/sfm/reconstruction_builder.cc): ingestion of views and   *)
(* two-view matches, the calibration filter and the estimation loop of     *)
(* BuildReconstruction that carves the working scene into output           *)
(* reconstructions.                                                        *)
(*                                                                         *)
(* Reconstruction, ViewGraph, TrackBuilder and ReconstructionEstimator are *)
(* collaborators whose code is outside the modelled sources; they are      *)
(* modelled from their description in spec.md (sections 3, 4.2, 4.3, 4.4). *)
(***************************************************************************)
EXTENDS Integers, Sequences, FiniteSets, TLC

\* ------------------------------------------------------------------ bounds
\* Views a builder holds at most, and two-view matches ingested at most.
MaxViews == 4
MaxMatches == 2
\* Rounds of the estimation loop that are followed: an estimator that reports
\* success without flagging a view keeps the loop going for ever.
MaxRounds == 3
\* AddImage / AddImageWithCameraIntrinsicsPrior calls that are followed.
MaxImages == 2

ViewIds == 1..MaxViews
kInvalidViewId == 0

\* ReconstructionBuilderOptions::min_track_length / max_track_length handed
\* to the TrackBuilder by the database constructor.
min_track_length == 2
max_track_length == 20

VARIABLES
  options_,                \* ReconstructionBuilderOptions: only_calibrated_views,
                           \* reconstruct_largest_connected_component
  reconstruction_,         \* the working scene (Reconstruction)
  view_graph_,             \* the working view graph (ViewGraph)
  track_builder_,          \* the TrackBuilder, or the null pointer
  feature_extractor_and_matcher_,  \* "null" | "ready" | "released"
  image_filepaths_,        \* recorded image paths
  reconstructions,         \* the caller's output vector
  pc,                      \* "idle" | "loop" | "estimated" | "done" | "aborted"
  ret,                     \* "true" | "false" returned by the last call, else "none"
  last_op,                 \* history: name of the last operation taken
  num_estimations,         \* history: calls of ReconstructionEstimator::Estimate
  loop_views,              \* history: views of the working scene when the loop started
  call_input,              \* history: scene and view graph BuildReconstruction was called on
  ransac                   \* a run of the sample-consensus engine (Estimate)

vars == <<options_, reconstruction_, view_graph_, track_builder_,
          feature_extractor_and_matcher_, image_filepaths_, reconstructions,
          pc, ret, last_op, num_estimations, loop_views, call_input, ransac>>

\* ------------------------------------------------------------- helpers
Pairs(S) == {p \in S \X S : p[1] < p[2]}

Endpoints(E) == {p[1] : p \in E} \cup {p[2] : p \in E}

Min(S) == CHOOSE x \in S : \A y \in S : x <= y

\* The ids of a set in increasing order: the order the vectors returned by
\* ViewIds() and TrackIds() are walked in.
RECURSIVE SortedSeq(_)
SortedSeq(S) == IF S = {} THEN <<>> ELSE <<Min(S)>> \o SortedSeq(S \ {Min(S)})

Restrict(f, D) == [x \in D |-> f[x]]

\* The value of `ret` for a call that returned b.
Returned(b) == IF b THEN "true" ELSE "false"

\* ------------------------------------------ Reconstruction (collaborator)
\* A Reconstruction is a record
\*   views            : ids of its views. Image names are opaque, so the k-th
\*                      distinct name is written k and its view gets id k.
\*   calibrated       : views whose CameraIntrinsicsPrior().focal_length.is_set
\*   estimated        : views with IsEstimated()
\*   tracks           : track id -> the set of views observing the track
\*   estimated_tracks : track ids with IsEstimated()
EmptyReconstruction ==
  [views |-> {}, calibrated |-> {}, estimated |-> {},
   tracks |-> <<>>, estimated_tracks |-> {}]

NumViews(r) == Cardinality(r.views)

NumTracks(r) == Cardinality(DOMAIN r.tracks)

ViewIdFromName(r, name) == IF name \in r.views THEN name ELSE kInvalidViewId

\* Reconstruction::AddView(name): a fresh id, or kInvalidViewId when a view of
\* that name exists. Returns <<reconstruction, view id>>.
AddView(r, name) ==
  IF name \in r.views
    THEN <<r, kInvalidViewId>>
    ELSE <<[r EXCEPT !.views = @ \cup {name}], name>>

\* Reconstruction::RemoveView: excises the view, and with it the view's
\* observations from every track.
ReconstructionRemoveView(r, v) ==
  IF v \notin r.views THEN r
  ELSE [r EXCEPT !.views = @ \ {v},
                 !.calibrated = @ \ {v},
                 !.estimated = @ \ {v},
                 !.tracks = [t \in DOMAIN @ |-> @[t] \ {v}]]

\* Reconstruction::RemoveTrack: excises the track.
ReconstructionRemoveTrack(r, t) ==
  IF t \notin DOMAIN r.tracks THEN r
  ELSE [r EXCEPT !.tracks = Restrict(@, DOMAIN @ \ {t}),
                 !.estimated_tracks = @ \ {t}]

\* ----------------------------------------------- ViewGraph (collaborator)
\* A ViewGraph is a record
\*   views : its vertices
\*   edges : <<a, b>> with a < b  ->  TwoViewInfo
\* A TwoViewInfo is <<from, to, tag>>: the relative transform from the camera
\* of view `from` to the camera of view `to`, of the match numbered `tag`.
EmptyViewGraph == [views |-> {}, edges |-> <<>>]

ViewGraphNumViews(g) == Cardinality(g.views)

ViewGraphNumEdges(g) == Cardinality(DOMAIN g.edges)

\* SwapCameras(&twoview_info): the inverse transform.
SwapCameras(info) == <<info[2], info[1], info[3]>>

\* ViewGraph::AddEdge (spec.md 4.2): normalizes direction (smaller id ->
\* larger id, swapping the geometry when the ids come in the opposite order),
\* then inserts or overwrites the edge of the pair.
AddEdge(g, a, b, info) ==
  LET key == IF a < b THEN <<a, b>> ELSE <<b, a>>
      val == IF a < b THEN info ELSE SwapCameras(info)
  IN [views |-> g.views \cup {a, b},
      edges |-> [p \in DOMAIN g.edges \cup {key} |->
                   IF p = key THEN val ELSE g.edges[p]]]

\* ViewGraph::RemoveView (spec.md 4.2): deletes the view and every incident
\* edge.
ViewGraphRemoveView(g, v) ==
  IF v \notin g.views THEN g
  ELSE [views |-> g.views \ {v},
        edges |-> Restrict(g.edges,
                           {p \in DOMAIN g.edges : p[1] # v /\ p[2] # v})]

\* --------------------------------------------- TrackBuilder (collaborator)
\* A TrackBuilder is a record
\*   present         : FALSE for the null pointer of a builder that never
\*                     created one
\*   correspondences : the correspondences added so far, each the set of
\*                     the keys <<view, feature>> it links
\*   min_length, max_length : the view-span range of TrackBuilder(min, max)
\* (spec.md 4.3: union-find over observation keys).
TrackBuilder(min_length, max_length) ==
  [present |-> TRUE, correspondences |-> {},
   min_length |-> min_length, max_length |-> max_length]

\* track_builder_.reset(new TrackBuilder(options.min_track_length,
\*                                       options.max_track_length)).
EmptyTrackBuilder == TrackBuilder(min_track_length, max_track_length)

NullTrackBuilder == [EmptyTrackBuilder EXCEPT !.present = FALSE]

AddFeatureCorrespondence(tb, v1, f1, v2, f2) ==
  [tb EXCEPT !.correspondences = @ \cup {{<<v1, f1>>, <<v2, f2>>}}]

\* Mutant: two observations in one view do not disqualify a component.
ValidTrack_SpanOnly(tb, c) ==
  /\ Cardinality({k[1] : k \in c}) >= tb.min_length
  /\ Cardinality({k[1] : k \in c}) <= tb.max_length

\* Mutant: a key is joined with its direct partners only.
Component_OneHop(links, S) == S \cup UNION {l \in links : l \cap S # {}}

RECURSIVE Component(_, _)
Component(links, S) ==
  LET T == S \cup UNION {l \in links : l \cap S # {}}
  IN IF T = S THEN S ELSE Component(links, T)

Components(links) == {Component(links, {k}) : k \in UNION links}

TrackViews(c) == {k[1] : k \in c}

\* A component becomes a track iff its view span lies in
\* [min_length, max_length] and no two of its observations are in the same
\* view.
ValidTrack(tb, c) ==
  /\ Cardinality(TrackViews(c)) >= tb.min_length
  /\ Cardinality(TrackViews(c)) <= tb.max_length
  /\ Cardinality(c) = Cardinality(TrackViews(c))

KeyRank(k) == k[1] * (MaxViews + 2) + k[2]

ComponentRank(c) == Min({KeyRank(k) : k \in c})

\* TrackBuilder::BuildTracks(reconstruction): one track per valid component,
\* ids handed out in the order of the components' first keys.
BuildTracks(tb, r) ==
  LET good == {c \in Components(tb.correspondences) : ValidTrack(tb, c)}
      ranks == SortedSeq({ComponentRank(c) : c \in good})
      comp(i) == CHOOSE c \in good : ComponentRank(c) = ranks[i]
      base == NumTracks(r)
  IN [r EXCEPT !.tracks =
        [t \in DOMAIN @ \cup {base + i : i \in 1..Len(ranks)} |->
           IF t \in DOMAIN @ THEN @[t] ELSE TrackViews(comp(t - base))]]

\* ------------------------------- ReconstructionEstimator (collaborator)
\* ReconstructionEstimator::Estimate(view_graph, reconstruction) returns
\* success or failure and flags the views and tracks it estimated
\* (spec.md 4.4, step 3). An outcome is a record
\*   [success, views, tracks]; a failed call flags nothing.
EstimatorOutcomes(g, r) ==
  {[success |-> TRUE, views |-> V, tracks |-> T] :
     V \in SUBSET r.views, T \in SUBSET DOMAIN r.tracks}
  \cup {[success |-> FALSE, views |-> r.estimated, tracks |-> r.estimated_tracks]}

ApplyEstimate(r, o) ==
  [r EXCEPT !.estimated = o.views, !.estimated_tracks = o.tracks]

\* The connected component of view v in the view graph, among the views of
\* the scene.
RECURSIVE Reach(_, _, _)
Reach(g, r, S) ==
  LET T == S \cup {w \in r.views :
                     \E p \in DOMAIN g.edges :
                        \/ p[1] \in S /\ p[2] = w
                        \/ p[2] \in S /\ p[1] = w}
  IN IF T = S THEN S ELSE Reach(g, r, T)

ViewComponents(g, r) == {Reach(g, r, {v}) : v \in r.views}

\* An estimator that always succeeds fully: it works on one connected
\* component of at least two views and flags all of that component's views,
\* and every track observed only from them, as estimated. With no such
\* component there is nothing to estimate and it fails.
WorkableComponents(g, r) == {D \in ViewComponents(g, r) : Cardinality(D) >= 2}

FullEstimatorOutcomes(g, r) ==
  IF WorkableComponents(g, r) = {}
    THEN {[success |-> FALSE, views |-> r.estimated, tracks |-> r.estimated_tracks]}
    ELSE {[success |-> TRUE, views |-> C,
           tracks |-> {t \in DOMAIN r.tracks :
                         r.tracks[t] # {} /\ r.tracks[t] \subseteq C}] :
            C \in WorkableComponents(g, r)}

\* ------------------------------------------ reconstruction_builder.cc
\* AddViewToReconstruction(image_filepath, intrinsics, group, reconstruction):
\* <<reconstruction, ok>>. `prior` is "none" (no intrinsics given), "set"
\* (focal_length.is_set) or "unset".
AddViewToReconstruction(r, name, prior) ==
  LET added == AddView(r, name)
  IN IF added[2] = kInvalidViewId
       THEN <<r, FALSE>>
       ELSE <<IF prior = "set"
                THEN [added[1] EXCEPT !.calibrated = @ \cup {added[2]}]
                ELSE added[1],
              TRUE>>

\* The loop of CreateEstimatedSubreconstruction over the copy's view ids:
\* every view that is not estimated is removed.
RECURSIVE RemoveUnestimatedViews(_, _)
RemoveUnestimatedViews(r, ids) ==
  IF ids = <<>> THEN r
  ELSE LET v == Head(ids)
       IN IF v \notin r.views
            THEN RemoveUnestimatedViews(r, Tail(ids))
            ELSE IF v \notin r.estimated
              THEN RemoveUnestimatedViews(ReconstructionRemoveView(r, v), Tail(ids))
              ELSE RemoveUnestimatedViews(r, Tail(ids))

RECURSIVE RemoveUnestimatedTracks(_, _)
RemoveUnestimatedTracks(r, ids) ==
  IF ids = <<>> THEN r
  ELSE LET t == Head(ids)
       IN IF t \notin DOMAIN r.tracks
            THEN RemoveUnestimatedTracks(r, Tail(ids))
            ELSE IF t \notin r.estimated_tracks
              THEN RemoveUnestimatedTracks(ReconstructionRemoveTrack(r, t), Tail(ids))
              ELSE RemoveUnestimatedTracks(r, Tail(ids))

\* Mutant: the track loop of CreateEstimatedSubreconstruction is left out.
CreateEstimatedSubreconstruction_NoTrackLoop(r) ==
  RemoveUnestimatedViews(r, SortedSeq(r.views))

\* CreateEstimatedSubreconstruction(input_reconstruction): a copy of the
\* input without its unestimated views and tracks.
CreateEstimatedSubreconstruction(r) ==
  LET sub1 == RemoveUnestimatedViews(r, SortedSeq(r.views))
  IN RemoveUnestimatedTracks(sub1, SortedSeq(DOMAIN sub1.tracks))

\* The view loop of RemoveEstimatedViewsAndTracks on <<reconstruction,
\* view graph>>: every estimated view leaves both.
RECURSIVE RemoveEstimatedViews(_, _)
RemoveEstimatedViews(rg, ids) ==
  IF ids = <<>> THEN rg
  ELSE LET v == Head(ids)
       IN IF v \notin rg[1].views
            THEN RemoveEstimatedViews(rg, Tail(ids))
            ELSE IF v \in rg[1].estimated
              THEN RemoveEstimatedViews(
                     <<ReconstructionRemoveView(rg[1], v),
                       ViewGraphRemoveView(rg[2], v)>>, Tail(ids))
              ELSE RemoveEstimatedViews(rg, Tail(ids))

RECURSIVE RemoveEstimatedTracks(_, _)
RemoveEstimatedTracks(r, ids) ==
  IF ids = <<>> THEN r
  ELSE LET t == Head(ids)
       IN IF t \notin DOMAIN r.tracks
            THEN RemoveEstimatedTracks(r, Tail(ids))
            ELSE IF t \in r.estimated_tracks
              THEN RemoveEstimatedTracks(ReconstructionRemoveTrack(r, t), Tail(ids))
              ELSE RemoveEstimatedTracks(r, Tail(ids))

\* Mutant: the estimated views are not removed from the view graph.
RemoveEstimatedViewsAndTracks_SceneOnly(r, g) ==
  LET rg == RemoveEstimatedViews(<<r, g>>, SortedSeq(r.views))
  IN <<RemoveEstimatedTracks(rg[1], SortedSeq(DOMAIN rg[1].tracks)), g>>

\* Mutant: only the estimated tracks are removed, the views stay.
RemoveEstimatedViewsAndTracks_TracksOnly(r, g) ==
  <<RemoveEstimatedTracks(r, SortedSeq(DOMAIN r.tracks)), g>>

\* RemoveEstimatedViewsAndTracks(reconstruction, view_graph):
\* <<reconstruction, view graph>> afterwards.
RemoveEstimatedViewsAndTracks(r, g) ==
  LET rg == RemoveEstimatedViews(<<r, g>>, SortedSeq(r.views))
  IN <<RemoveEstimatedTracks(rg[1], SortedSeq(DOMAIN rg[1].tracks)), rg[2]>>

\* The loop of ReconstructionBuilder::RemoveUncalibratedViews on
\* <<reconstruction, view graph>>.
RECURSIVE RemoveUncalibratedLoop(_, _)
RemoveUncalibratedLoop(rg, ids) ==
  IF ids = <<>> THEN rg
  ELSE LET v == Head(ids)
       IN IF v \notin rg[1].calibrated
            THEN RemoveUncalibratedLoop(
                   <<ReconstructionRemoveView(rg[1], v),
                     ViewGraphRemoveView(rg[2], v)>>, Tail(ids))
            ELSE RemoveUncalibratedLoop(rg, Tail(ids))

\* Mutant: the loop stops after the first view it removes.
RemoveUncalibratedViews_FirstOnly(r, g) ==
  LET u == r.views \ r.calibrated
  IN IF u = {} THEN <<r, g>>
     ELSE <<ReconstructionRemoveView(r, Min(u)), ViewGraphRemoveView(g, Min(u))>>

\* Mutant: the views leave the scene but stay in the view graph.
RemoveUncalibratedViews_SceneOnly(r, g) ==
  <<RemoveUncalibratedLoop(<<r, g>>, SortedSeq(r.views))[1], g>>

\* ReconstructionBuilder::RemoveUncalibratedViews().
RemoveUncalibratedViews(r, g) == RemoveUncalibratedLoop(<<r, g>>, SortedSeq(r.views))

\* Mutant: a pair that has an edge keeps it.
AddMatchToViewGraph_KeepFirst(g, view_id1, view_id2, matches) ==
  IF \E p \in DOMAIN g.edges : {p[1], p[2]} = {view_id1, view_id2}
    THEN g
    ELSE AddEdge(g, view_id1, view_id2, matches.twoview_info)

\* ReconstructionBuilder::AddMatchToViewGraph(view_id1, view_id2, matches).
AddMatchToViewGraph(g, view_id1, view_id2, matches) ==
  LET twoview_info == IF view_id1 > view_id2
                        THEN SwapCameras(matches.twoview_info)
                        ELSE matches.twoview_info
  IN AddEdge(g, view_id1, view_id2, twoview_info)

\* The loop of AddTracksForMatch over the match's correspondences.
RECURSIVE AddCorrespondences(_, _, _, _)
AddCorrespondences(tb, view_id1, view_id2, ms) ==
  IF ms = {} THEN tb
  ELSE LET m == CHOOSE x \in ms : TRUE
       IN AddCorrespondences(
            AddFeatureCorrespondence(tb, view_id1, m[1], view_id2, m[2]),
            view_id1, view_id2, ms \ {m})

\* ReconstructionBuilder::AddTracksForMatch(view_id1, view_id2, matches).
AddTracksForMatch(tb, view_id1, view_id2, matches) ==
  AddCorrespondences(tb, view_id1, view_id2, matches.correspondences)

\* Conditions and return values of BuildReconstruction.
PreconditionHolds(g) == ViewGraphNumViews(g) >= 2

\* Mutant: the loop needs three views.
LoopCondition_OffByOne(r) == NumViews(r) > 2

LoopCondition(r) == NumViews(r) > 1

\* Mutant: a failed round reports success.
ReturnAfterFailure_AlwaysTrue(recs) == TRUE

ReturnAfterFailure(recs) == Len(recs) > 0

ReturnAfterLargest(recs) == Len(recs) > 0

\* Mutant: the single-largest-component option is ignored.
StopAfterFirstRound_Never(opts) == FALSE

StopAfterFirstRound(opts) == opts.reconstruct_largest_connected_component

\* Mutant: the loop goes on with two views left.
TooFewViewsLeft_Two(r) == NumViews(r) < 2

\* Mutant: the loop goes on with one view left.
TooFewViewsLeft_One(r) == NumViews(r) < 1

TooFewViewsLeft(r) == NumViews(r) < 3

ReturnAfterTooFew(recs) == Len(recs) > 0

ReturnAfterLoop(recs) == TRUE

\* ------------------------------------------------------------ inputs
\* The correspondences a match carries: feature pairs <<feature1, feature2>>.
MatchCorrespondences == {{}, {<<1, 1>>}}

\* Scenes handed to the constructor that takes a reconstruction and a view
\* graph: views 1..n with any calibration, and up to two tracks.
SuppliedTrackSets(n) ==
  {<<>>} \cup (IF n >= 2 THEN {<<{1, 2}>>} ELSE {})
         \cup (IF n >= 3 THEN {<<{1, 2}, 2..n>>} ELSE {})

SuppliedReconstructions ==
  UNION {{[views |-> 1..n, calibrated |-> C, estimated |-> {},
           tracks |-> T, estimated_tracks |-> {}] :
            C \in SUBSET (1..n), T \in SuppliedTrackSets(n)} : n \in 0..MaxViews}

\* The edges between consecutive ids i, i+1 for i in S.
PathEdges(S) == {<<i, i + 1>> : i \in S}

\* View graphs handed to that constructor: no edge, a path over the scene's
\* views, a path over more views than the scene has, a single edge, two
\* disjoint edges.
SuppliedEdgeSets(n) ==
  {{}, PathEdges(1..(n - 1)), PathEdges(1..(MaxViews - 1)),
   PathEdges({1}), PathEdges({1, 3})}

SuppliedViewGraph(E) ==
  [views |-> Endpoints(E), edges |-> [p \in E |-> <<p[1], p[2], 0>>]]

\* --------------------------------------------------------------- Init
\* No run of the sample-consensus engine is in progress.
NoRansac == [phase |-> "idle"]

NoInput == [reconstruction |-> EmptyReconstruction, view_graph |-> EmptyViewGraph]

\* The builder right after construction, by either constructor. The output
\* vector the caller will hand to BuildReconstruction is empty.
InitCommon ==
  /\ ransac = NoRansac
  /\ options_ \in [only_calibrated_views : BOOLEAN,
                   reconstruct_largest_connected_component : BOOLEAN]
  /\ image_filepaths_ = <<>>
  /\ reconstructions = <<>>
  /\ pc = "idle"
  /\ ret = "none"
  /\ last_op = "constructor"
  /\ num_estimations = 0
  /\ loop_views = {}
  /\ call_input = NoInput

\* ReconstructionBuilder(options, features_and_matches_database).
InitDatabase ==
  /\ InitCommon
  /\ reconstruction_ = EmptyReconstruction
  /\ view_graph_ = EmptyViewGraph
  /\ track_builder_ = EmptyTrackBuilder
  /\ feature_extractor_and_matcher_ = "ready"

\* ReconstructionBuilder(options, reconstruction, view_graph): neither a
\* track builder nor a feature extractor and matcher is created.
InitSupplied ==
  /\ InitCommon
  /\ reconstruction_ \in SuppliedReconstructions
  /\ view_graph_ \in {SuppliedViewGraph(E) :
                        E \in SuppliedEdgeSets(NumViews(reconstruction_))}
  \* Without calibrated-only mode nothing reads the priors.
  /\ options_.only_calibrated_views
       \/ reconstruction_.calibrated = {}
  /\ track_builder_ = NullTrackBuilder
  /\ feature_extractor_and_matcher_ = "null"

InitConstructed == InitDatabase \/ InitSupplied

\* ---------------------------------------------------------- ingestion
NextImageName == NumViews(reconstruction_) + 1

\* Names a caller passes to AddImage: a name already added, or the next new
\* one.
ImageNames == reconstruction_.views \cup ({NextImageName} \cap (1..MaxImages))

\* Names a caller or the database passes for the images of a match: the name
\* of a view, or the next new name, which is no view.
MatchNames == reconstruction_.views \cup ({NextImageName} \cap ViewIds)

\* Shared body of AddImage and AddImageWithCameraIntrinsicsPrior.
AddImageBody(op, name, prior) ==
  LET added == AddViewToReconstruction(reconstruction_, name, prior)
  IN /\ pc = "idle"
     /\ Len(image_filepaths_) < MaxImages
     /\ image_filepaths_' = Append(image_filepaths_, name)
     /\ reconstruction_' = added[1]
     /\ IF ~added[2]
          THEN /\ ret' = "false"
               /\ pc' = pc
               /\ last_op' = op
          ELSE IF feature_extractor_and_matcher_ = "ready"
            \* FeatureExtractorAndMatcher::AddImage answers true or false.
            THEN /\ ret' \in {"true", "false"}
                 /\ pc' = pc
                 /\ last_op' = op
            \* A call through a null pointer: undefined behaviour.
            ELSE \/ /\ pc' = "aborted"
                    /\ ret' = "none"
                    /\ last_op' = op \o " null feature_extractor_and_matcher_"
                 \/ /\ pc' = pc
                    /\ ret' \in {"true", "false"}
                    /\ last_op' = op
     /\ UNCHANGED <<ransac, options_, view_graph_, track_builder_,
                    feature_extractor_and_matcher_, reconstructions,
                    num_estimations, loop_views, call_input>>

\* ReconstructionBuilder::AddImage(image_filepath).
AddImage == \E name \in ImageNames : AddImageBody("AddImage", name, "none")

\* ReconstructionBuilder::AddImageWithCameraIntrinsicsPrior(image_filepath,
\* camera_intrinsics_prior).
AddImageWithCameraIntrinsicsPrior ==
  \E name \in ImageNames, prior \in {"set", "unset"} :
     AddImageBody("AddImageWithCameraIntrinsicsPrior", name, prior)

\* Mutant: calibrated-only mode does not skip a match with an uncalibrated
\* view.
AddTwoViewMatchResult_NoCalibrationSkip(r, g, tb, image1, image2, matches) ==
  LET view_id1 == ViewIdFromName(r, image1)
      view_id2 == ViewIdFromName(r, image2)
  IN IF view_id1 = kInvalidViewId \/ view_id2 = kInvalidViewId
       THEN <<g, tb, "CHECK">>
     ELSE IF ~tb.present /\ matches.correspondences # {}
       THEN <<AddMatchToViewGraph(g, view_id1, view_id2, matches), tb, "null">>
     ELSE <<AddMatchToViewGraph(g, view_id1, view_id2, matches),
            IF ~tb.present THEN tb
            ELSE AddTracksForMatch(tb, view_id1, view_id2, matches),
            "ok">>

\* The state AddTwoViewMatch leaves behind, as
\* <<view graph, track builder, outcome>>; outcome is "ok", "CHECK" (a failed
\* CHECK_NE aborts the process) or "null" (the absent track builder was used).
AddTwoViewMatchResult(r, g, tb, image1, image2, matches) ==
  LET view_id1 == ViewIdFromName(r, image1)
      view_id2 == ViewIdFromName(r, image2)
  IN IF view_id1 = kInvalidViewId \/ view_id2 = kInvalidViewId
       THEN <<g, tb, "CHECK">>
     ELSE IF /\ options_.only_calibrated_views
             /\ (view_id1 \notin r.calibrated \/ view_id2 \notin r.calibrated)
       THEN <<g, tb, "ok">>
     ELSE IF ~tb.present /\ matches.correspondences # {}
       THEN <<AddMatchToViewGraph(g, view_id1, view_id2, matches), tb, "null">>
     ELSE <<AddMatchToViewGraph(g, view_id1, view_id2, matches),
            IF ~tb.present THEN tb
            ELSE AddTracksForMatch(tb, view_id1, view_id2, matches),
            "ok">>

\* Matches a caller (or the matcher) supplies for the pair image1, image2:
\* the geometry is the transform from image1's camera to image2's.
Geometries == {1, 2}

Matches(image1, image2) ==
  UNION {{[twoview_info |-> <<image1, image2, t>>, correspondences |-> c] :
            c \in {{}, {<<t, t>>}}} : t \in Geometries}

\* ReconstructionBuilder::AddTwoViewMatch(image1, image2, matches).
AddTwoViewMatch ==
  \E image1 \in MatchNames, image2 \in MatchNames :
    \E matches \in Matches(image1, image2) :
      LET res == AddTwoViewMatchResult(reconstruction_, view_graph_,
                                       track_builder_, image1, image2, matches)
      IN /\ pc = "idle"
         /\ image1 # image2
         /\ ViewGraphNumEdges(res[1]) <= MaxMatches
         /\ view_graph_' = res[1]
         /\ track_builder_' = res[2]
         /\ \/ /\ res[3] = "ok"
               /\ pc' = pc
               /\ ret' = "true"
               /\ last_op' = "AddTwoViewMatch"
            \/ /\ res[3] = "CHECK"
               /\ pc' = "aborted"
               /\ ret' = "none"
               /\ last_op' = "AddTwoViewMatch CHECK_NE"
            \/ /\ res[3] = "null"
               /\ \/ /\ pc' = "aborted"
                     /\ ret' = "none"
                     /\ last_op' = "AddTwoViewMatch null track_builder_"
                  \/ /\ pc' = pc
                     /\ ret' = "true"
                     /\ last_op' = "AddTwoViewMatch"
         /\ UNCHANGED <<ransac, options_, reconstruction_,
                        feature_extractor_and_matcher_, image_filepaths_,
                        reconstructions, num_estimations, loop_views, call_input>>

\* The loop of ExtractAndMatchFeatures over the database's matches, in the
\* order of the keys: <<view graph, track builder, outcome>>. A failed
\* CHECK_NE stops the loop; the use of a null track builder is remembered.
RECURSIVE AddDatabaseMatches(_, _, _, _)
AddDatabaseMatches(r, g, tb, keys) ==
  IF keys = <<>> THEN <<g, tb, "ok">>
  ELSE LET k == Head(keys)
           res == AddTwoViewMatchResult(r, g, tb, k.image1, k.image2, k.matches)
           rest == AddDatabaseMatches(r, res[1], res[2], Tail(keys))
       IN IF res[3] = "CHECK" THEN res
          ELSE IF res[3] = "null" /\ rest[3] = "ok"
            THEN <<rest[1], rest[2], "null">>
          ELSE rest

\* What the database holds once the matcher has run: the names with a
\* focal-length prior, and a list of matched pairs (each unordered pair at most
\* once). Names that are not views of the scene may be among them.
DatabaseMatchLists ==
  {<<>>}
  \cup UNION {{<<[image1 |-> p[1], image2 |-> p[2],
                   matches |-> [twoview_info |-> <<p[1], p[2], 1>>,
                                correspondences |-> c]]>> :
                 c \in MatchCorrespondences} :
                p \in {q \in MatchNames \X MatchNames : q[1] # q[2]}}

\* The names the database holds a prior for: none, those of all views, the
\* first name (a view or not).
DatabasePriors == {{}, reconstruction_.views, {1}}

\* ReconstructionBuilder::ExtractAndMatchFeatures(). The call through
\* feature_extractor_and_matcher_ at line 273 is undefined behaviour when the
\* pointer is null (never created, or released by an earlier call): the
\* process crashes or the function carries on.
ExtractAndMatchFeatures ==
  \E priors \in DatabasePriors, keys \in DatabaseMatchLists :
   \E ub \in (IF /\ feature_extractor_and_matcher_ = "ready"
                 /\ track_builder_.present
                 /\ priors \subseteq reconstruction_.views
               THEN {"carry on"} ELSE {"crash", "carry on"}) :
    LET r1 == [reconstruction_ EXCEPT
                 !.calibrated = @ \cup (priors \cap reconstruction_.views)]
        res == AddDatabaseMatches(r1, view_graph_, track_builder_, keys)
    IN /\ pc = "idle"
       /\ UNCHANGED <<ransac, options_, image_filepaths_, reconstructions,
                      num_estimations, loop_views, call_input>>
       /\ IF ViewGraphNumViews(view_graph_) # 0
            THEN /\ pc' = "aborted"
                 /\ ret' = "none"
                 /\ last_op' = "ExtractAndMatchFeatures CHECK_EQ"
                 /\ UNCHANGED <<reconstruction_, view_graph_, track_builder_,
                                feature_extractor_and_matcher_>>
          ELSE IF feature_extractor_and_matcher_ # "ready" /\ ub = "crash"
            THEN /\ pc' = "aborted"
                 /\ ret' = "none"
                 /\ last_op' = "ExtractAndMatchFeatures null feature_extractor_and_matcher_"
                 /\ UNCHANGED <<reconstruction_, view_graph_, track_builder_,
                                feature_extractor_and_matcher_>>
          ELSE IF ~(priors \subseteq reconstruction_.views) /\ ub = "crash"
            \* MutableView(kInvalidViewId) is null and is written through
            \* (lines 290-295): undefined behaviour, a crash or no effect on
            \* the scene.
            THEN /\ pc' = "aborted"
                 /\ ret' = "none"
                 /\ last_op' = "ExtractAndMatchFeatures null view"
                 /\ feature_extractor_and_matcher_' =
                      IF feature_extractor_and_matcher_ = "ready"
                        THEN "released" ELSE feature_extractor_and_matcher_
                 /\ UNCHANGED <<reconstruction_, view_graph_, track_builder_>>
          ELSE /\ feature_extractor_and_matcher_' =
                    IF feature_extractor_and_matcher_ = "ready"
                      THEN "released" ELSE feature_extractor_and_matcher_
               /\ reconstruction_' = r1
               /\ view_graph_' = res[1]
               /\ track_builder_' = res[2]
               \* The use of a null track_builder_ is undefined behaviour too.
               /\ IF res[3] = "ok" \/ (res[3] = "null" /\ ub = "carry on")
                    THEN /\ pc' = pc
                         /\ ret' = "true"
                         /\ last_op' = "ExtractAndMatchFeatures"
                    ELSE /\ pc' = "aborted"
                         /\ ret' = "none"
                         /\ last_op' = "ExtractAndMatchFeatures " \o res[3]

\* ------------------------------------------------- BuildReconstruction
\* Lines 350-365: the precondition, the tracks, the calibration filter.
BuildReconstructionBegin ==
  /\ pc = "idle"
  /\ UNCHANGED <<ransac, options_, track_builder_, feature_extractor_and_matcher_,
                 image_filepaths_, reconstructions, num_estimations>>
  /\ call_input' = [reconstruction |-> reconstruction_, view_graph |-> view_graph_]
  /\ IF ~PreconditionHolds(view_graph_)
       THEN /\ pc' = "aborted"
            /\ ret' = "none"
            /\ last_op' = "BuildReconstruction CHECK_GE"
            /\ UNCHANGED <<reconstruction_, view_graph_, loop_views>>
       ELSE \E ub \in {"crash", "no effect"} :
         LET null_used == NumTracks(reconstruction_) = 0 /\ ~track_builder_.present
             r1 == IF NumTracks(reconstruction_) = 0 /\ track_builder_.present
                     THEN BuildTracks(track_builder_, reconstruction_)
                     ELSE reconstruction_
             rg == IF options_.only_calibrated_views
                     THEN RemoveUncalibratedViews(r1, view_graph_)
                     ELSE <<r1, view_graph_>>
         IN IF null_used /\ ub = "crash"
              \* track_builder_->BuildTracks() through a null pointer.
              THEN /\ pc' = "aborted"
                   /\ ret' = "none"
                   /\ last_op' = "null track_builder_"
                   /\ UNCHANGED <<reconstruction_, view_graph_, loop_views>>
              ELSE /\ pc' = "loop"
                   /\ ret' = "none"
                   /\ last_op' = "BuildReconstruction"
                   /\ reconstruction_' = rg[1]
                   /\ view_graph_' = rg[2]
                   /\ loop_views' = rg[1].views

\* Lines 367-382: the loop condition holds and the estimator is called.
EstimateWith(fully) ==
  /\ pc = "loop"
  /\ LoopCondition(reconstruction_)
  /\ num_estimations < MaxRounds
  /\ \E o \in (IF fully THEN FullEstimatorOutcomes(view_graph_, reconstruction_)
                       ELSE EstimatorOutcomes(view_graph_, reconstruction_)) :
       /\ reconstruction_' = ApplyEstimate(reconstruction_, o)
       /\ num_estimations' = num_estimations + 1
       /\ IF o.success
            THEN /\ pc' = "estimated"
                 /\ ret' = ret
                 /\ last_op' = "Estimate succeeded"
            ELSE /\ pc' = "done"
                 /\ ret' = Returned(ReturnAfterFailure(reconstructions))
                 /\ last_op' = "Estimate failed"
  /\ UNCHANGED <<ransac, options_, view_graph_, track_builder_,
                 feature_extractor_and_matcher_, image_filepaths_,
                 reconstructions, loop_views, call_input>>

Estimate == EstimateWith(FALSE)

\* Mutant: the new output is put in front of the earlier ones.
EmplaceBack_Front(recs, sub) == <<sub>> \o recs

\* reconstructions->emplace_back(subreconstruction), lines 399-400.
EmplaceBack(recs, sub) == Append(recs, sub)

\* Lines 397-412: the snapshot, the removal and the two exits of the loop body.
FinishRound ==
  /\ pc = "estimated"
  /\ LET sub == CreateEstimatedSubreconstruction(reconstruction_)
         rg == RemoveEstimatedViewsAndTracks(reconstruction_, view_graph_)
         recs == EmplaceBack(reconstructions, sub)
     IN /\ reconstructions' = recs
        /\ reconstruction_' = rg[1]
        /\ view_graph_' = rg[2]
        /\ IF StopAfterFirstRound(options_)
             THEN /\ pc' = "done"
                  /\ ret' = Returned(ReturnAfterLargest(recs))
                  /\ last_op' = "largest component only"
             ELSE IF TooFewViewsLeft(rg[1])
               THEN /\ pc' = "done"
                    /\ ret' = Returned(ReturnAfterTooFew(recs))
                    /\ last_op' = "too few views left"
               ELSE /\ pc' = "loop"
                    /\ ret' = ret
                    /\ last_op' = "round"
  /\ UNCHANGED <<ransac, options_, track_builder_, feature_extractor_and_matcher_,
                 image_filepaths_, num_estimations, loop_views, call_input>>

\* Lines 367 and 414: the loop condition fails.
LeaveLoop ==
  /\ pc = "loop"
  /\ ~LoopCondition(reconstruction_)
  /\ pc' = "done"
  /\ ret' = Returned(ReturnAfterLoop(reconstructions))
  /\ last_op' = "loop condition failed"
  /\ UNCHANGED <<ransac, options_, reconstruction_, view_graph_, track_builder_,
                 feature_extractor_and_matcher_, image_filepaths_,
                 reconstructions, num_estimations, loop_views, call_input>>

\* ------------------------------------- the builder before it builds
PairRank(p) == p[1] * (MaxViews + 1) + p[2]

\* The match lists of an ingestion: at most MaxMatches pairs of images,
\* each pair once, the matches all with or all without a correspondence. Up to the
\* naming of the images, two matches are two disjoint or two adjacent pairs,
\* so pairs of consecutive images cover them.
IngestedMatchLists(n) ==
  UNION {
    {[i \in 1..Cardinality(E) |->
        LET p == CHOOSE q \in E :
                   Cardinality({x \in E : PairRank(x) < PairRank(q)}) = i - 1
        IN [image1 |-> p[1], image2 |-> p[2],
            matches |-> [twoview_info |-> <<p[1], p[2], 1>>,
                         correspondences |-> c[p]]]] :
       c \in {[p \in E |-> m] : m \in MatchCorrespondences}} :
    E \in {F \in SUBSET PathEdges(1..(n - 1)) : Cardinality(F) <= MaxMatches}}

\* The scene after AddImage / AddImageWithCameraIntrinsicsPrior for the images
\* 1..n, those of C with a focal-length prior.
RECURSIVE IngestedViews(_, _)
IngestedViews(n, C) ==
  IF n = 0 THEN EmptyReconstruction
  ELSE AddViewToReconstruction(IngestedViews(n - 1, C), n,
                               IF n \in C THEN "set" ELSE "none")[1]

\* A builder made by the database constructor, after the caller added the
\* images 1..n and a list of two-view matches (AddImage, AddTwoViewMatch).
InitIngested ==
  /\ ransac = NoRansac
  /\ options_ \in [only_calibrated_views : BOOLEAN,
                   reconstruct_largest_connected_component : BOOLEAN]
  /\ reconstructions = <<>>
  /\ pc = "idle"
  /\ ret = "true"
  /\ last_op = "AddTwoViewMatch"
  /\ num_estimations = 0
  /\ loop_views = {}
  /\ call_input = NoInput
  /\ feature_extractor_and_matcher_ = "ready"
  /\ \E n \in 0..MaxViews :
       \E C \in SUBSET (1..n), keys \in IngestedMatchLists(n) :
         LET r == IngestedViews(n, C)
             \* Without calibrated-only mode nothing reads the priors.
             lean == options_.only_calibrated_views \/ C = {}
             res == AddDatabaseMatches(r, EmptyViewGraph, EmptyTrackBuilder, keys)
         IN /\ lean
            /\ reconstruction_ = r
            /\ view_graph_ = res[1]
            /\ track_builder_ = res[2]
            /\ image_filepaths_ = [i \in 1..n |-> i]

\* The builders BuildReconstruction is called on.
Init == InitIngested \/ InitSupplied

Next ==
  \/ BuildReconstructionBegin
  \/ Estimate
  \/ FinishRound
  \/ LeaveLoop

Spec == Init /\ [][Next]_vars

TypeOK ==
  /\ pc \in {"idle", "loop", "estimated", "done", "aborted", "filtered", "filtered twice"}
  /\ ret \in {"none", "true", "false"}

\* --------------------- an estimator that always succeeds fully (mock)
\* Scenes for the runs with the mock estimator: up to FullViews views, the
\* view graph any set of edges between consecutive views, so that the
\* connected components are runs of consecutive ids.
FullViews == MaxViews + 2

InitFullIngested ==
  /\ ransac = NoRansac
  /\ options_ \in [only_calibrated_views : BOOLEAN,
                   reconstruct_largest_connected_component : BOOLEAN]
  /\ reconstructions = <<>>
  /\ pc = "idle"
  /\ ret = "true"
  /\ last_op = "AddTwoViewMatch"
  /\ num_estimations = 0
  /\ loop_views = {}
  /\ call_input = NoInput
  /\ feature_extractor_and_matcher_ = "ready"
  /\ \E n \in 0..FullViews :
       \E C \in {{}, 1..n}, E \in SUBSET PathEdges(1..(n - 1)) :
         LET r == IngestedViews(n, C)
             keys == [i \in 1..Cardinality(E) |->
                        LET p == CHOOSE q \in E :
                               Cardinality({x \in E : PairRank(x) < PairRank(q)}) = i - 1
                        IN [image1 |-> p[1], image2 |-> p[2],
                            matches |-> [twoview_info |-> <<p[1], p[2], 1>>,
                                         correspondences |-> {<<1, 1>>}]]]
             res == AddDatabaseMatches(r, EmptyViewGraph, EmptyTrackBuilder, keys)
         IN /\ reconstruction_ = r
            /\ view_graph_ = res[1]
            /\ track_builder_ = res[2]
            /\ image_filepaths_ = [i \in 1..n |-> i]

InitFullSupplied ==
  /\ InitCommon
  /\ track_builder_ = NullTrackBuilder
  /\ feature_extractor_and_matcher_ = "null"
  /\ \E n \in 0..FullViews :
       \E C \in {{}, 1..n, 2..n}, E \in SUBSET PathEdges(1..(n - 1)) :
         /\ reconstruction_ = [views |-> 1..n, calibrated |-> C, estimated |-> {},
                               tracks |-> IF n >= 2 THEN <<{1, 2}>> ELSE <<>>,
                               estimated_tracks |-> {}]
         /\ view_graph_ = SuppliedViewGraph(E)

InitFull == InitFullIngested \/ InitFullSupplied

EstimateFully == EstimateWith(TRUE)

NextFull ==
  \/ BuildReconstructionBegin
  \/ EstimateFully
  \/ FinishRound
  \/ LeaveLoop

SpecFull == InitFull /\ [][NextFull]_vars

\* ------------------------------------------ the calibration filter alone
\* ReconstructionBuilder::RemoveUncalibratedViews() called by the caller, once
\* and then once more.
CallRemoveUncalibratedViews ==
  /\ pc \in {"idle", "filtered"}
  /\ LET rg == RemoveUncalibratedViews(reconstruction_, view_graph_)
     IN /\ reconstruction_' = rg[1]
        /\ view_graph_' = rg[2]
  /\ pc' = IF pc = "idle" THEN "filtered" ELSE "filtered twice"
  /\ ret' = "none"
  /\ last_op' = "RemoveUncalibratedViews"
  /\ UNCHANGED <<ransac, options_, track_builder_, feature_extractor_and_matcher_,
                 image_filepaths_, reconstructions, num_estimations,
                 loop_views, call_input>>

\* Any calibration of the supplied scenes, with any of the supplied graphs.
InitCalibration ==
  /\ InitCommon
  /\ track_builder_ = NullTrackBuilder
  /\ feature_extractor_and_matcher_ = "null"
  /\ reconstruction_ \in SuppliedReconstructions
  /\ view_graph_ \in {SuppliedViewGraph(E) :
                        E \in SuppliedEdgeSets(NumViews(reconstruction_))}

SpecCalibration ==
  (InitIngested \/ InitCalibration) /\ [][CallRemoveUncalibratedViews]_vars

\* ------------------------------------------------------- ingestion
\* A builder from its construction on: the ingestion calls in any order,
\* then BuildReconstruction.
NextIngest ==
  \/ AddImage
  \/ AddImageWithCameraIntrinsicsPrior
  \/ AddTwoViewMatch
  \/ ExtractAndMatchFeatures

\* The supplied scenes ingestion is followed from: one or two views, no
\* track, and no edge or one.
InitIngest ==
  \/ InitDatabase
  \/ /\ InitSupplied
     /\ reconstruction_.views \in {{1}, {1, 2}}
     /\ reconstruction_.calibrated \in {{}, reconstruction_.views}
     /\ reconstruction_.tracks = <<>>
     /\ ViewGraphNumEdges(view_graph_) <= 1
     /\ view_graph_.views \subseteq {1, 2}

SpecIngest == InitIngest /\ [][NextIngest]_vars

\* ------------------------------------------- matches of three images
\* Views a chain of matches is followed over.
ChainViews == {1, 2, 3}

\* A database builder after AddImage (or AddImageWithCameraIntrinsicsPrior)
\* of three images, before any match.
InitTracks ==
  /\ ransac = NoRansac
  /\ options_ \in [only_calibrated_views : BOOLEAN,
                   reconstruct_largest_connected_component : BOOLEAN]
  /\ \E C \in {{}, ChainViews} :
       reconstruction_ = [EmptyReconstruction EXCEPT !.views = ChainViews,
                                                     !.calibrated = C]
  /\ view_graph_ = EmptyViewGraph
  /\ track_builder_ = EmptyTrackBuilder
  /\ feature_extractor_and_matcher_ = "ready"
  /\ image_filepaths_ = <<1, 2, 3>>
  /\ reconstructions = <<>>
  /\ pc = "idle"
  /\ ret = "none"
  /\ last_op = "AddImage"
  /\ num_estimations = 0
  /\ loop_views = {}
  /\ call_input = NoInput

\* Matches added in any order, then the start of BuildReconstruction, which
\* builds the tracks.
NextTracks ==
  \/ AddTwoViewMatch
  \/ BuildReconstructionBegin

SpecTracks == InitTracks /\ [][NextTracks]_vars

\* ---------------------------- a database builder, every public call
\* ReconstructionBuilder::RemoveUncalibratedViews() called by the user of
\* the builder between other calls.
RemoveUncalibratedViewsCall ==
  /\ pc = "idle"
  /\ LET rg == RemoveUncalibratedViews(reconstruction_, view_graph_)
     IN /\ reconstruction_' = rg[1]
        /\ view_graph_' = rg[2]
  /\ ret' = "none"
  /\ last_op' = "RemoveUncalibratedViews"
  /\ UNCHANGED <<ransac, options_, track_builder_, feature_extractor_and_matcher_,
                 image_filepaths_, reconstructions, pc, num_estimations,
                 loop_views, call_input>>

\* The ingestion calls and the filter in any order, then one call of
\* BuildReconstruction with an estimator that may flag any views. The loop
\* condition cannot fail for these builders: the precondition leaves two
\* views or more.
NextDatabaseBuilder ==
  \/ NextIngest
  \/ RemoveUncalibratedViewsCall
  \/ BuildReconstructionBegin
  \/ Estimate
  \/ FinishRound

SpecDatabaseBuilder == InitDatabase /\ [][NextDatabaseBuilder]_vars

\* ------------------------------- three images, from matches to outputs
\* A database builder after three images were added, any of them with a
\* focal-length prior (AddImageWithCameraIntrinsicsPrior), before any match.
InitThreeImages ==
  /\ ransac = NoRansac
  /\ options_ \in [only_calibrated_views : BOOLEAN,
                   reconstruct_largest_connected_component : BOOLEAN]
  /\ \E C \in SUBSET ChainViews :
       reconstruction_ = [EmptyReconstruction EXCEPT !.views = ChainViews,
                                                     !.calibrated = C]
  /\ view_graph_ = EmptyViewGraph
  /\ track_builder_ = EmptyTrackBuilder
  /\ feature_extractor_and_matcher_ = "ready"
  /\ image_filepaths_ = <<1, 2, 3>>
  /\ reconstructions = <<>>
  /\ pc = "idle"
  /\ ret = "none"
  /\ last_op = "AddImage"
  /\ num_estimations = 0
  /\ loop_views = {}
  /\ call_input = NoInput

\* Matches in any order, then one call of BuildReconstruction to its end,
\* with the estimator that always succeeds fully. The loop condition cannot
\* fail for these builders: the precondition leaves two views or more.
NextThreeImages ==
  \/ AddTwoViewMatch
  \/ BuildReconstructionBegin
  \/ EstimateFully
  \/ FinishRound

SpecThreeImages == InitThreeImages /\ [][NextThreeImages]_vars

\* ------------------------------------------- the track builder alone
\* Correspondences a track builder is followed for.
MaxCorrespondences == 3

\* Feature indices of the observations.
Features == {1, 2}

ObservationKeys == ChainViews \X Features

\* The ranges TrackBuilder(min_length, max_length) is constructed with.
TrackLengthRanges == {<<2, 2>>, <<2, 3>>, <<3, 3>>}

\* A fresh TrackBuilder and a reconstruction of three views without tracks.
InitTrackBuilder ==
  /\ ransac = NoRansac
  /\ options_ = [only_calibrated_views |-> FALSE,
                 reconstruct_largest_connected_component |-> FALSE]
  /\ reconstruction_ = [EmptyReconstruction EXCEPT !.views = ChainViews]
  /\ view_graph_ = EmptyViewGraph
  /\ \E range \in TrackLengthRanges :
       track_builder_ = TrackBuilder(range[1], range[2])
  /\ feature_extractor_and_matcher_ = "ready"
  /\ image_filepaths_ = <<1, 2, 3>>
  /\ reconstructions = <<>>
  /\ pc = "idle"
  /\ ret = "none"
  /\ last_op = "TrackBuilder"
  /\ num_estimations = 0
  /\ loop_views = {}
  /\ call_input = NoInput

\* track_builder->AddFeatureCorrespondence(view_id1, feature1, view_id2,
\* feature2) for any two observations.
CallAddFeatureCorrespondence ==
  \E k1 \in ObservationKeys, k2 \in ObservationKeys :
    /\ pc = "idle"
    /\ k1 # k2
    /\ Cardinality(track_builder_.correspondences) < MaxCorrespondences
    /\ track_builder_' =
         AddFeatureCorrespondence(track_builder_, k1[1], k1[2], k2[1], k2[2])
    /\ last_op' = "AddFeatureCorrespondence"
    /\ UNCHANGED <<ransac, options_, reconstruction_, view_graph_,
                   feature_extractor_and_matcher_, image_filepaths_,
                   reconstructions, pc, ret, num_estimations, loop_views,
                   call_input>>

\* track_builder->BuildTracks(reconstruction).
CallBuildTracks ==
  /\ pc = "idle"
  /\ reconstruction_' = BuildTracks(track_builder_, reconstruction_)
  /\ pc' = "done"
  /\ last_op' = "BuildTracks"
  /\ UNCHANGED <<ransac, options_, view_graph_, track_builder_,
                 feature_extractor_and_matcher_, image_filepaths_,
                 reconstructions, ret, num_estimations, loop_views,
                 call_input>>

NextTrackBuilder ==
  \/ CallAddFeatureCorrespondence
  \/ CallBuildTracks

SpecTrackBuilder == InitTrackBuilder /\ [][NextTrackBuilder]_vars

\* ------------------------------------- the sample-consensus engine
\* Estimate(config, correspondences) of spec.md 4.1; its code is outside the
\* modelled sources. ransac is, during a run, the record
\*   phase          : "configured" | "running" | "returned"
\*   min_iterations, max_iterations : of the configuration
\*   assumed        : inliers of the assumed worst-case inlier ratio
\*   num_iterations : the iteration counter
\*   bound          : the current iteration bound
\*   best           : inliers of the best candidate so far
\*   outcome        : "success" | "insufficient support", once returned
\* Iteration counts and correspondences a run is followed for.
MaxIterations == 4
RansacPoints == 4
\* The minimal sample size of the problem and the failure probability
\* FailureNum / FailureDen of the runs followed.
SampleSize == 2
FailureNum == 1
FailureDen == 4

RECURSIVE Pow(_, _)
Pow(x, n) == IF n = 0 THEN 1 ELSE x * Pow(x, n - 1)

\* (1 - (b / N)^SampleSize)^n <= failure_probability, in integers.
ConfidentAfter(b, n) ==
  Pow(Pow(RansacPoints, SampleSize) - Pow(b, SampleSize), n) * FailureDen
    <= FailureNum * Pow(RansacPoints, SampleSize * n)

\* ceil(log(failure_probability) / log(1 - best_inlier_ratio^sample_size)),
\* for b inliers; any value above cap stands for cap + 1.
IterationsNeeded(b, cap) ==
  IF b = RansacPoints THEN 0
  ELSE IF \E n \in 1..cap : ConfidentAfter(b, n)
    THEN CHOOSE n \in 1..cap :
           ConfidentAfter(b, n) /\ \A m \in 1..(n - 1) : ~ConfidentAfter(b, m)
    ELSE cap + 1

\* Mutant: the bound is clamped from above only.
Clamp_NoMinimum(n, lo, hi) == IF n > hi THEN hi ELSE n

\* Clamped to [min_iterations, max_iterations].
Clamp(n, lo, hi) == IF n < lo THEN lo ELSE IF n > hi THEN hi ELSE n

CurrentBound(b, lo, hi) == Clamp(IterationsNeeded(b, hi), lo, hi)

\* The builder plays no part in a run of the engine.
BuilderAside ==
  /\ options_ = [only_calibrated_views |-> FALSE,
                 reconstruct_largest_connected_component |-> FALSE]
  /\ reconstruction_ = EmptyReconstruction
  /\ view_graph_ = EmptyViewGraph
  /\ track_builder_ = EmptyTrackBuilder
  /\ feature_extractor_and_matcher_ = "ready"
  /\ image_filepaths_ = <<>>
  /\ reconstructions = <<>>
  /\ pc = "idle"
  /\ ret = "none"
  /\ last_op = "constructor"
  /\ num_estimations = 0
  /\ loop_views = {}
  /\ call_input = NoInput

UnchangedBuilder ==
  UNCHANGED <<options_, reconstruction_, view_graph_, track_builder_,
              feature_extractor_and_matcher_, image_filepaths_,
              reconstructions, pc, ret, last_op, num_estimations, loop_views,
              call_input>>

\* A configuration that meets the preconditions: min_iterations <=
\* max_iterations, a positive iteration count, at least SampleSize
\* correspondences.
InitRansac ==
  /\ BuilderAside
  /\ \E lo \in 0..MaxIterations, hi \in 1..MaxIterations, a \in 1..RansacPoints :
       /\ lo <= hi
       /\ ransac = [phase |-> "configured", min_iterations |-> lo,
                    max_iterations |-> hi, assumed |-> a, num_iterations |-> 0,
                    bound |-> 0, best |-> 0, outcome |-> "none"]

\* Step 1: the bound is seeded from the assumed worst-case inlier ratio.
EstimateBegin ==
  /\ ransac.phase = "configured"
  /\ ransac' = [ransac EXCEPT
                  !.phase = "running",
                  !.bound = CurrentBound(ransac.assumed, ransac.min_iterations,
                                         ransac.max_iterations)]
  /\ UnchangedBuilder

\* Step 2 with a degenerate sample: no candidate, one iteration consumed.
DegenerateSample ==
  /\ ransac.phase = "running"
  /\ ransac.num_iterations < ransac.bound
  /\ ransac' = [ransac EXCEPT
                  !.num_iterations = @ + 1,
                  !.bound = CurrentBound(IF ransac.best = 0 THEN ransac.assumed
                                                           ELSE ransac.best,
                                         ransac.min_iterations,
                                         ransac.max_iterations)]
  /\ UnchangedBuilder

\* Step 2 with a sample whose best candidate has c inliers.
ScoreSample ==
  \E c \in 0..RansacPoints :
    LET b == IF c > ransac.best THEN c ELSE ransac.best
    IN /\ ransac.phase = "running"
       /\ ransac.num_iterations < ransac.bound
       /\ ransac' = [ransac EXCEPT
                       !.num_iterations = @ + 1,
                       !.best = b,
                       !.bound = CurrentBound(IF b = 0 THEN ransac.assumed ELSE b,
                                              ransac.min_iterations,
                                              ransac.max_iterations)]
       /\ UnchangedBuilder

\* Mutant: a run always reports success.
EstimateOutcome_AlwaysSuccess(best) == "success"

\* Step 3: without a candidate of at least SampleSize inliers the run fails
\* with the insufficient-support outcome.
EstimateOutcome(best) ==
  IF best < SampleSize THEN "insufficient support" ELSE "success"

\* Steps 3 and 5: the counter has reached the bound.
EstimateReturn ==
  /\ ransac.phase = "running"
  /\ ransac.num_iterations >= ransac.bound
  /\ ransac' = [ransac EXCEPT
                  !.phase = "returned",
                  !.outcome = EstimateOutcome(ransac.best)]
  /\ UnchangedBuilder

NextRansac ==
  \/ EstimateBegin
  \/ DegenerateSample
  \/ ScoreSample
  \/ EstimateReturn

\* The engine has no cancellation and no blocking call: a run keeps going.
SpecRansac == InitRansac /\ [][NextRansac]_vars /\ WF_vars(NextRansac)

\* ------------------------------ the engine's scoring of a candidate
\* Step 2c of spec.md 4.1 in detail. A candidate is given by the residuals
\* of the correspondences 1..RansacPoints under it; ransac has, besides the
\* fields above,
\*   candidate    : the residuals of the candidate evaluated last (<<>>
\*                  before the first)
\*   best_inliers : the inlier indices of the best candidate
\*   best_cost    : its summed inlier residual
\* Residual values, and the error threshold of the runs followed.
Residuals == {0, 1, 2}
error_threshold == 2

\* A correspondence is an inlier iff its residual is below error_threshold.
Inliers(residuals) ==
  {i \in DOMAIN residuals : residuals[i] < error_threshold}

RECURSIVE SumResiduals(_, _)
SumResiduals(residuals, S) ==
  IF S = {} THEN 0
  ELSE LET i == CHOOSE x \in S : TRUE
       IN residuals[i] + SumResiduals(residuals, S \ {i})

\* Mutant: a candidate with as many inliers replaces the best one.
BetterCandidate_OnTie(count, cost, best, best_cost) == count >= best

\* More inliers, or as many with a lower summed inlier residual.
BetterCandidate(count, cost, best, best_cost) ==
  count > best \/ (count = best /\ cost < best_cost)

\* One configuration, before the first iteration.
InitRansacScoring ==
  /\ BuilderAside
  /\ \E lo \in {0, 2}, a \in {1, RansacPoints} :
       ransac = [phase |-> "configured", min_iterations |-> lo,
                 max_iterations |-> 3, assumed |-> a, num_iterations |-> 0,
                 bound |-> 0, best |-> 0, outcome |-> "none",
                 candidate |-> <<>>, best_inliers |-> {}, best_cost |-> 0]

\* Step 2 with a sample that gives a candidate: its residuals are computed,
\* its inliers counted, and the best candidate and the bound updated.
EvaluateCandidate ==
  \E residuals \in [1..RansacPoints -> Residuals] :
    LET inliers == Inliers(residuals)
        count == Cardinality(inliers)
        cost == SumResiduals(residuals, inliers)
        better == BetterCandidate(count, cost, ransac.best, ransac.best_cost)
        b == IF better THEN count ELSE ransac.best
    IN /\ ransac.phase = "running"
       /\ ransac.num_iterations < ransac.bound
       /\ ransac' = [ransac EXCEPT
                       !.num_iterations = @ + 1,
                       !.candidate = residuals,
                       !.best = b,
                       !.best_inliers = IF better THEN inliers ELSE @,
                       !.best_cost = IF better THEN cost ELSE @,
                       !.bound = CurrentBound(IF b = 0 THEN ransac.assumed ELSE b,
                                              ransac.min_iterations,
                                              ransac.max_iterations)]
       /\ UnchangedBuilder

NextRansacScoring ==
  \/ EstimateBegin
  \/ DegenerateSample
  \/ EvaluateCandidate
  \/ EstimateReturn

SpecRansacScoring == InitRansacScoring /\ [][NextRansacScoring]_vars

\* ============================================================ properties
Largest == options_.reconstruct_largest_connected_component

OutputViews(i) == reconstructions[i].views

InBuild == pc \in {"loop", "estimated", "done"}

\* C1 (as stated): a call of BuildReconstruction that returns has returned
\* true exactly when it produced at least one output reconstruction.
C1_TrueIffOutput ==
  pc = "done" => (ret = "true" <=> Len(reconstructions) > 0)

C3_SnapshotExact ==
  [][pc = "estimated" =>
       /\ Len(reconstructions') = Len(reconstructions) + 1
       /\ SubSeq(reconstructions', 1, Len(reconstructions)) = reconstructions
       /\ reconstructions'[Len(reconstructions')].views = reconstruction_.estimated
       /\ DOMAIN reconstructions'[Len(reconstructions')].tracks
            = reconstruction_.estimated_tracks]_vars

C3_Witness ==
  /\ pc \in {"loop", "done"}
  /\ Len(reconstructions) >= 1
  /\ OutputViews(1) # {}
  /\ DOMAIN reconstructions[1].tracks # {}
  /\ reconstruction_.views # {}
  /\ DOMAIN reconstruction_.tracks # {}

\* What C4 says of the views and of the view graph: the estimated views leave
\* the scene and the view graph with their edges, the other views keep their
\* priors, the other edges keep their geometry.
RoundRemovesViews ==
  LET est == reconstruction_.estimated
      kept == {p \in DOMAIN view_graph_.edges : p[1] \notin est /\ p[2] \notin est}
  IN /\ reconstruction_'.views = reconstruction_.views \ est
     /\ reconstruction_'.calibrated = reconstruction_.calibrated \ est
     /\ view_graph_'.views = view_graph_.views \ est
     /\ DOMAIN view_graph_'.edges = kept
     /\ \A p \in kept : view_graph_'.edges[p] = view_graph_.edges[p]
     /\ DOMAIN reconstruction_'.tracks \cap reconstruction_.estimated_tracks = {}

\* C4 (as stated): after a successful round the estimated views and tracks
\* are gone from the scene and the views from the view graph with their
\* edges, and every unestimated view, track and edge between unestimated
\* views is left in place unchanged.
C4_FrameOriginal ==
  [][pc = "estimated" =>
       /\ RoundRemovesViews
       /\ \A t \in DOMAIN reconstruction_.tracks \ reconstruction_.estimated_tracks :
            /\ t \in DOMAIN reconstruction_'.tracks
            /\ reconstruction_'.tracks[t] = reconstruction_.tracks[t]]_vars

\* C4 (amended): as C4, but an unestimated track keeps only its observations
\* in the views that remain: every unestimated track still observed by a
\* remaining view stays in the scene, unestimated, with exactly those
\* observations.
C4_FrameAmended ==
  [][pc = "estimated" =>
       /\ RoundRemovesViews
       /\ \A t \in DOMAIN reconstruction_.tracks \ reconstruction_.estimated_tracks :
            reconstruction_.tracks[t] \ reconstruction_.estimated # {} =>
              /\ t \in DOMAIN reconstruction_'.tracks
              /\ t \notin reconstruction_'.estimated_tracks
              /\ reconstruction_'.tracks[t]
                   = reconstruction_.tracks[t] \ reconstruction_.estimated]_vars

C4_Witness ==
  /\ pc \in {"loop", "done"}
  /\ ~options_.only_calibrated_views
  /\ Len(reconstructions) >= 1
  /\ DOMAIN view_graph_.edges # {}
  /\ DOMAIN view_graph_.edges # DOMAIN call_input.view_graph.edges
  /\ \E t \in DOMAIN reconstruction_.tracks \cap DOMAIN call_input.reconstruction.tracks :
       /\ reconstruction_.tracks[t] # {}
       /\ reconstruction_.tracks[t] # call_input.reconstruction.tracks[t]

\* C5: at every point of BuildReconstruction the outputs are pairwise
\* disjoint in views and disjoint from the working scene, and together with
\* the working scene they hold exactly the views the loop started with.
C5_Partition ==
  InBuild =>
    /\ \A i \in 1..Len(reconstructions), j \in 1..Len(reconstructions) :
         i # j => OutputViews(i) \cap OutputViews(j) = {}
    /\ \A i \in 1..Len(reconstructions) :
         OutputViews(i) \cap reconstruction_.views = {}
    /\ UNION {OutputViews(i) : i \in 1..Len(reconstructions)}
         \cup reconstruction_.views = loop_views

C5_Witness ==
  /\ pc = "done"
  /\ Len(reconstructions) = 2
  /\ OutputViews(1) # {}
  /\ OutputViews(2) # {}
  /\ reconstruction_.views # {}

\* The views BuildReconstruction was called with form exactly two connected
\* components, each of at least two views.
TwoComponentsInput ==
  LET comps == ViewComponents(call_input.view_graph, call_input.reconstruction)
  IN /\ Cardinality(comps) = 2
     /\ \A c \in comps : Cardinality(c) >= 2

\* The calibration filter discarded no view.
NothingFiltered == loop_views = call_input.reconstruction.views

\* C6 (as stated): two disjoint components of any sizes >= 2, an estimator
\* that always succeeds fully, single-largest-component mode off: exactly
\* two output reconstructions.
C6_TwoOutputsOriginal ==
  (pc = "done" /\ ~Largest /\ TwoComponentsInput) => Len(reconstructions) = 2

\* C6 (amended): with no view discarded by the calibration filter there are
\* exactly two outputs when at least three views remain after the first
\* round, and exactly one when two remain.
C6_TwoOutputsAmended ==
  (pc = "done" /\ ~Largest /\ TwoComponentsInput /\ NothingFiltered) =>
     /\ Len(reconstructions) >= 1
     /\ Len(reconstructions) =
          IF Cardinality(loop_views \ OutputViews(1)) >= 3 THEN 2 ELSE 1

C6_Witness ==
  /\ pc = "done"
  /\ ~Largest
  /\ TwoComponentsInput
  /\ NothingFiltered
  /\ Len(reconstructions) = 2
  /\ Cardinality(OutputViews(1)) = 2
  /\ Cardinality(OutputViews(2)) = 3

\* The views BuildReconstruction was called with are the vertices of the
\* view graph and form one connected component.
OneComponentInput ==
  /\ NumViews(call_input.reconstruction) >= 2
  /\ call_input.view_graph.views = call_input.reconstruction.views
  /\ ViewComponents(call_input.view_graph, call_input.reconstruction)
       = {call_input.reconstruction.views}

FullRunOutcome ==
  /\ num_estimations = 1
  /\ Len(reconstructions) = 1
  /\ OutputViews(1) = call_input.reconstruction.views
  /\ reconstruction_.views = {}
  /\ NumTracks(reconstruction_) = 0
  /\ view_graph_ = EmptyViewGraph
  /\ ret = "true"

\* C7 (as stated): one connected component and an estimator that always
\* succeeds fully: one estimator call, one output holding all input views,
\* an empty working scene and view graph, and true returned.
C7_OneOutputOriginal ==
  (pc = "done" /\ OneComponentInput) => FullRunOutcome

\* C7 (amended): the same, provided calibrated-only mode is off or every
\* input view has a focal-length prior.
C7_OneOutputAmended ==
  (/\ pc = "done"
   /\ OneComponentInput
   /\ \/ ~options_.only_calibrated_views
      \/ call_input.reconstruction.calibrated = call_input.reconstruction.views)
  => FullRunOutcome

C7_Witness ==
  /\ pc = "done"
  /\ OneComponentInput
  /\ NumViews(call_input.reconstruction) >= 3
  /\ FullRunOutcome

\* C8: in single-largest-component mode the estimator is called at most
\* once and at most one output is appended; once the first round has
\* succeeded the call has returned true, whatever is left in the scene.
C8_LargestOnly ==
  Largest =>
    /\ num_estimations <= 1
    /\ Len(reconstructions) <= 1
    /\ Len(reconstructions) = 1 => (pc = "done" /\ ret = "true")

C8_Witness ==
  /\ Largest
  /\ pc = "done"
  /\ Len(reconstructions) = 1
  /\ ret = "true"
  /\ NumViews(reconstruction_) >= 3

\* C9: the estimator is never called on a scene of fewer than two views,
\* and after a successful round only on a scene of at least three; a
\* successful round that leaves fewer than three views ends the call, which
\* returns true.
C9_ViewCounts ==
  [][/\ num_estimations' = num_estimations + 1 =>
          /\ NumViews(reconstruction_) >= 2
          /\ Len(reconstructions) > 0 => NumViews(reconstruction_) >= 3
     /\ (pc = "estimated" /\ NumViews(reconstruction_') < 3) =>
          (pc' = "done" /\ ret' = "true")]_vars

C9_Witness ==
  /\ pc = "done"
  /\ ~Largest
  /\ num_estimations = 2
  /\ last_op = "too few views left"
  /\ NumViews(reconstruction_) = 2
  /\ ret = "true"

\* C10: RemoveUncalibratedViews removes no view that has a focal-length
\* prior, from the scene or from the view graph, and a second call changes
\* neither the scene nor the view graph.
C10_FilterIdempotent ==
  [][/\ pc = "idle" =>
          /\ reconstruction_.calibrated \subseteq reconstruction_'.views
          /\ reconstruction_'.views \subseteq reconstruction_.calibrated
          /\ view_graph_.views \cap reconstruction_.calibrated
               \subseteq view_graph_'.views
     /\ pc = "filtered" =>
          /\ reconstruction_' = reconstruction_
          /\ view_graph_' = view_graph_]_vars

C10_Witness ==
  /\ pc = "filtered twice"
  /\ NumViews(reconstruction_) >= 1
  /\ Len(image_filepaths_) >= NumViews(reconstruction_) + 2
  /\ DOMAIN view_graph_.edges # {}

\* C11 (as stated): a call of BuildReconstruction on a working scene of fewer
\* than two views is stopped by the precondition before anything happens (no
\* track built, no view removed, no estimation, no output), and a call on a
\* working scene of at least two views is not stopped by it.
C11_PreconditionOnScene ==
  [][(pc = "idle" /\ pc' # "idle") =>
       IF NumViews(reconstruction_) < 2
         THEN /\ pc' = "aborted"
              /\ UNCHANGED <<reconstruction_, view_graph_, reconstructions,
                             num_estimations>>
         ELSE pc' # "aborted"]_vars

\* The labels last_op takes in a step of each ingestion call.
ExtractAndMatchOps ==
  {"ExtractAndMatchFeatures", "ExtractAndMatchFeatures CHECK_EQ",
   "ExtractAndMatchFeatures CHECK", "ExtractAndMatchFeatures null",
   "ExtractAndMatchFeatures null view",
   "ExtractAndMatchFeatures null feature_extractor_and_matcher_"}

AddImageOps ==
  {"AddImage", "AddImage null feature_extractor_and_matcher_",
   "AddImageWithCameraIntrinsicsPrior",
   "AddImageWithCameraIntrinsicsPrior null feature_extractor_and_matcher_"}

AddTwoViewMatchOps ==
  {"AddTwoViewMatch", "AddTwoViewMatch CHECK_NE",
   "AddTwoViewMatch null track_builder_"}

\* ExtractAndMatchFeatures has completed on this builder.
Matched == feature_extractor_and_matcher_ = "released"

\* C12 (as stated): once ExtractAndMatchFeatures has completed, and whenever
\* the view graph holds a match, a call of ExtractAndMatchFeatures is stopped
\* by its check on the view graph, before the feature extractor and matcher
\* is used and with nothing changed.
C12_ExtractOnce ==
  [][(/\ pc = "idle"
      /\ last_op' \in ExtractAndMatchOps
      /\ Matched \/ ViewGraphNumEdges(view_graph_) > 0) =>
       /\ last_op' = "ExtractAndMatchFeatures CHECK_EQ"
       /\ pc' = "aborted"
       /\ UNCHANGED <<reconstruction_, view_graph_, track_builder_,
                      feature_extractor_and_matcher_>>]_vars

\* C13 (as stated): once ExtractAndMatchFeatures has completed, a call of
\* AddImage, AddImageWithCameraIntrinsicsPrior or AddTwoViewMatch changes
\* neither the working scene, nor the view graph, nor the recorded image
\* paths, nor the accumulated correspondences.
C13_IngestionClosed ==
  [][(/\ pc = "idle"
      /\ Matched
      /\ last_op' \in AddImageOps \cup AddTwoViewMatchOps) =>
       UNCHANGED <<reconstruction_, view_graph_, image_filepaths_,
                   track_builder_>>]_vars
AddedMatch(image1, image2, matches) ==
  LET res == AddTwoViewMatchResult(reconstruction_, view_graph_,
                                   track_builder_, image1, image2, matches)
  IN /\ pc = "idle"
     /\ pc' = "idle"
     /\ last_op' = "AddTwoViewMatch"
     /\ image1 # image2
     /\ {image1, image2} \subseteq reconstruction_.views
     /\ options_.only_calibrated_views =>
          {image1, image2} \subseteq reconstruction_.calibrated
     /\ view_graph_' = res[1]
     /\ track_builder_' = res[2]

\* C15: the view graph holds at most one edge per unordered pair of views; a
\* match for a pair that has an edge replaces its geometry by the later
\* match's and leaves the number of edges and the other edges as they were;
\* the correspondences of every match are added to those the track builder
\* holds.
C15_OneEdgePerPair ==
  [][\A image1 \in MatchNames, image2 \in MatchNames :
       \A matches \in Matches(image1, image2) :
         AddedMatch(image1, image2, matches) =>
           LET key == IF image1 < image2 THEN <<image1, image2>>
                                         ELSE <<image2, image1>>
               old == view_graph_.edges
               new == view_graph_'.edges
           IN /\ \A p \in DOMAIN new : p[1] < p[2]
              /\ key \in DOMAIN new
              /\ new[key][3] = matches.twoview_info[3]
              /\ {new[key][1], new[key][2]} = {image1, image2}
              /\ key \in DOMAIN old =>
                   ViewGraphNumEdges(view_graph_') = ViewGraphNumEdges(view_graph_)
              /\ \A p \in DOMAIN old \ {key} : p \in DOMAIN new /\ new[p] = old[p]
              /\ track_builder_.present =>
                   track_builder_'.correspondences =
                     track_builder_.correspondences
                       \cup {{<<image1, c[1]>>, <<image2, c[2]>>} :
                               c \in matches.correspondences}]_vars

C15_Witness ==
  /\ pc = "idle"
  /\ last_op = "AddTwoViewMatch"
  /\ track_builder_.present
  /\ ViewGraphNumEdges(view_graph_) = 1
  /\ <<1, 2>> \in DOMAIN view_graph_.edges
  /\ view_graph_.edges[<<1, 2>>][3] = 2
  /\ track_builder_.correspondences
       = {{<<1, 1>>, <<2, 1>>}, {<<1, 2>>, <<2, 2>>}}

\* C18: every run of Estimate returns; the bound lies in [min_iterations,
\* max_iterations] throughout; every iteration, a degenerate one included,
\* advances the counter by one and is made only below the bound; at the bound
\* the run returns; the iterations used lie in [min_iterations,
\* max_iterations].
C18_EstimateTerminates ==
  /\ [](ransac.phase \in {"running", "returned"} =>
          /\ ransac.min_iterations <= ransac.bound
          /\ ransac.bound <= ransac.max_iterations)
  /\ [][ransac.phase = "running" =>
          IF ransac.num_iterations < ransac.bound
            THEN /\ ransac'.phase = "running"
                 /\ ransac'.num_iterations = ransac.num_iterations + 1
            ELSE /\ ransac'.phase = "returned"
                 /\ ransac'.num_iterations = ransac.num_iterations]_vars
  /\ [](ransac.phase = "returned" =>
          /\ ransac.min_iterations <= ransac.num_iterations
          /\ ransac.num_iterations <= ransac.max_iterations)
  /\ <>(ransac.phase = "returned")

C18_Witness ==
  /\ ransac.phase = "returned"
  /\ ransac.min_iterations = 2
  /\ ransac.num_iterations = 3
  /\ ransac.bound = 2
  /\ ransac.max_iterations = 4
  /\ ransac.outcome = "success"

\* Features f for which the track builder holds a chain of correspondences
\* view1 <-> view2, view2 <-> view3 over three distinct views.
ChainedFeatures ==
  {f \in Geometries :
     \E v1 \in ChainViews, v2 \in ChainViews, v3 \in ChainViews :
       /\ Cardinality({v1, v2, v3}) = 3
       /\ {<<v1, f>>, <<v2, f>>} \in track_builder_.correspondences
       /\ {<<v2, f>>, <<v3, f>>} \in track_builder_.correspondences}

\* C20: when BuildReconstruction builds the tracks, every chain of
\* correspondences view1 <-> view2, view2 <-> view3 on one point, added in
\* any order, has become exactly one track spanning the three views; when the
\* chain is all the track builder holds, that track is the only one.
C20_ChainIsOneTrack ==
  [][(pc = "idle" /\ pc' = "loop" /\ last_op' = "BuildReconstruction") =>
       /\ Cardinality({t \in DOMAIN reconstruction_'.tracks :
                         reconstruction_'.tracks[t] = ChainViews})
            = Cardinality(ChainedFeatures)
       /\ (Cardinality(track_builder_.correspondences) = 2
             /\ ChainedFeatures # {}) =>
            NumTracks(reconstruction_') = 1]_vars

C20_Witness ==
  /\ pc = "loop"
  /\ last_op = "BuildReconstruction"
  /\ track_builder_.correspondences
       = {{<<1, 1>>, <<2, 1>>}, {<<2, 1>>, <<3, 1>>}}
  /\ reconstruction_.tracks = <<ChainViews>>
\* The observations joined with observation k by the correspondences added,
\* directly or through other observations.
RECURSIVE JoinedWith(_)
JoinedWith(S) ==
  LET T == S \cup {k \in UNION track_builder_.correspondences :
                     \E l \in track_builder_.correspondences :
                        k \in l /\ l \cap S # {}}
  IN IF T = S THEN S ELSE JoinedWith(T)

JoinedGroups ==
  {JoinedWith({k}) : k \in UNION track_builder_.correspondences}

GroupViews(c) == {k[1] : k \in c}

\* A group whose view span is in the builder's range and that has one
\* observation per view.
KeptGroups ==
  {c \in JoinedGroups :
     /\ Cardinality(GroupViews(c)) >= track_builder_.min_length
     /\ Cardinality(GroupViews(c)) <= track_builder_.max_length
     /\ \A k1 \in c, k2 \in c : k1[1] = k2[1] => k1 = k2}

\* C21: once BuildTracks has run, every emitted track has a view span in
\* [min_length, max_length] and is the whole of a connected component with
\* one observation per view; the emitted tracks are as many as those
\* components, so a component out of range or with two observations in one
\* view gives no track at all, and the build completes.
C21_TracksValid ==
  last_op = "BuildTracks" =>
    /\ pc = "done"
    /\ \A t \in DOMAIN reconstruction_.tracks :
         /\ Cardinality(reconstruction_.tracks[t]) >= track_builder_.min_length
         /\ Cardinality(reconstruction_.tracks[t]) <= track_builder_.max_length
         /\ \E c \in KeptGroups : GroupViews(c) = reconstruction_.tracks[t]
    /\ \A c \in KeptGroups :
         \E t \in DOMAIN reconstruction_.tracks :
            reconstruction_.tracks[t] = GroupViews(c)
    /\ NumTracks(reconstruction_) = Cardinality(KeptGroups)

\* A component with two observations in view 1 is dropped, a valid one is
\* emitted.
C21_Witness ==
  /\ last_op = "BuildTracks"
  /\ track_builder_.min_length = 2
  /\ track_builder_.max_length = 2
  /\ track_builder_.correspondences
       = {{<<1, 1>>, <<2, 1>>}, {<<2, 1>>, <<1, 2>>}, {<<2, 2>>, <<3, 2>>}}
  /\ reconstruction_.tracks = <<{2, 3}>>
C23_TracksBuiltEachRound ==
  [][(/\ pc = "loop"
      /\ num_estimations' = num_estimations + 1
      /\ track_builder_.present
      /\ NumTracks(reconstruction_) = 0) => KeptGroups = {}]_vars
CalibratedOnly == options_.only_calibrated_views

\* No edge and no accumulated correspondence involves a view without a
\* focal-length prior.
OnlyCalibratedMatches ==
  /\ \A p \in DOMAIN view_graph_.edges :
        {p[1], p[2]} \subseteq reconstruction_.calibrated
          \/ {p[1], p[2]} \cap reconstruction_.views = {}
  /\ \A l \in track_builder_.correspondences :
        \A k \in l : k[1] \in reconstruction_.calibrated
                       \/ k[1] \notin reconstruction_.views

\* Every view of the scene and of the view graph has a focal-length prior.
OnlyCalibratedViews ==
  /\ reconstruction_.views \subseteq reconstruction_.calibrated
  /\ view_graph_.views \subseteq reconstruction_.calibrated

\* AddTwoViewMatch on a pair with an uncalibrated view answers true and
\* changes neither the view graph nor the track builder.
UncalibratedMatchSkipped ==
  \A image1 \in reconstruction_.views, image2 \in reconstruction_.views :
    (image1 # image2 /\ ~({image1, image2} \subseteq reconstruction_.calibrated)) =>
      \A matches \in Matches(image1, image2) :
        AddTwoViewMatchResult(reconstruction_, view_graph_, track_builder_,
                              image1, image2, matches)
          = <<view_graph_, track_builder_, "ok">>

\* The step of BuildReconstruction that holds the calibration filter.
FilterStep == pc = "idle" /\ pc' = "loop"

C25_InSync ==
  /\ view_graph_.views \subseteq reconstruction_.views
  /\ \A p \in DOMAIN view_graph_.edges :
        {p[1], p[2]} \subseteq reconstruction_.views
\* A round took view 1 of a matched pair; view 2 is left, without the edge.
C25_Witness ==
  /\ pc = "done"
  /\ track_builder_.present
  /\ <<1, 2>> \in DOMAIN call_input.view_graph.edges
  /\ Len(reconstructions) = 1
  /\ OutputViews(1) = {1}
  /\ reconstruction_.views = {2}
  /\ view_graph_ = [views |-> {2}, edges |-> <<>>]
\* The inliers of the candidate evaluated last, by the claim's rule, and
\* their summed residual.
CandidateInliers(r) ==
  {i \in DOMAIN r.candidate : r.candidate[i] < error_threshold}

CandidateCost(r) == SumResiduals(r.candidate, CandidateInliers(r))

\* C26: in every iteration the best candidate either stays or is replaced by
\* the candidate just evaluated, whose inliers are the correspondences with
\* residual strictly below error_threshold, and it is replaced only when
\* that candidate has strictly more inliers, or as many and a lower summed
\* inlier residual; the best inlier count never decreases and is never below
\* the inlier count of an evaluated candidate; the inlier indices are
\* distinct indices of correspondences, as many as the inlier count.
C26_BestCandidate ==
  /\ [](ransac.phase # "configured" =>
          /\ ransac.best_inliers \subseteq 1..RansacPoints
          /\ Cardinality(ransac.best_inliers) = ransac.best)
  /\ [][(ransac.phase = "running" /\ ransac'.phase = "running") =>
          LET count == Cardinality(CandidateInliers(ransac'))
              cost == CandidateCost(ransac')
          IN /\ ransac'.best >= ransac.best
             /\ ransac'.best >= count
             /\ \/ /\ ransac'.best = ransac.best
                   /\ ransac'.best_inliers = ransac.best_inliers
                   /\ ransac'.best_cost = ransac.best_cost
                \/ /\ ransac'.best_inliers = CandidateInliers(ransac')
                   /\ ransac'.best_cost = cost
                   /\ \/ count > ransac.best
                      \/ count = ransac.best /\ cost < ransac.best_cost]_vars
  /\ [][ransac'.phase = "returned" =>
          /\ ransac'.best = ransac.best
          /\ ransac'.best_inliers = ransac.best_inliers]_vars

\* A run has returned a candidate of three inliers after evaluating another
\* candidate of three inliers that did not have the lower summed residual.
C26_Witness ==
  /\ ransac.phase = "returned"
  /\ ransac.best = 3
  /\ ransac.best_inliers = {1, 2, 3}
  /\ ransac.best_cost = 1
  /\ ransac.candidate = <<2, 1, 0, 0>>
C28_TracksStayValid ==
  (InBuild /\ NothingFiltered) =>
    /\ \A i \in 1..Len(reconstructions) :
          \A t \in DOMAIN reconstructions[i].tracks :
             Cardinality(reconstructions[i].tracks[t]) >= min_track_length
    /\ \A t \in DOMAIN reconstruction_.tracks :
          Cardinality(reconstruction_.tracks[t]) >= min_track_length
\* C29 (as stated): the rounds of a call are at most as many as the views
\* the working scene had when the loop was entered, because every round in
\* which the estimator succeeds leaves the working scene with strictly fewer
\* views, whatever the estimator flagged.
C29_RoundsBounded ==
  [][/\ pc = "estimated" =>
          NumViews(reconstruction_') < NumViews(reconstruction_)
     /\ InBuild' => num_estimations' <= Cardinality(loop_views')]_vars
\* C30 (as stated): a call of AddImage or AddImageWithCameraIntrinsicsPrior
\* that returns false leaves the working scene without a new view and the
\* list of image paths as it was.
C30_FailedAddImageNoChange ==
  [][(pc = "idle" /\ pc' = "idle" /\ last_op' \in AddImageOps /\ ret' = "false") =>
       /\ reconstruction_'.views = reconstruction_.views
       /\ image_filepaths_' = image_filepaths_]_vars
\* Labels of the steps in which a call through a pointer that was never set
\* ended the process.
NullUseOps ==
  {"AddImage null feature_extractor_and_matcher_",
   "AddImageWithCameraIntrinsicsPrior null feature_extractor_and_matcher_",
   "AddTwoViewMatch null track_builder_",
   "ExtractAndMatchFeatures null",
   "ExtractAndMatchFeatures null feature_extractor_and_matcher_",
   "null track_builder_"}

\* C31 (as stated): on a builder constructed from a supplied reconstruction
\* and view graph no operation uses the track builder or the feature
\* extractor and matcher, which that constructor never creates.
C31_NoUseOfAbsentComponent ==
  [][(~track_builder_.present /\ feature_extractor_and_matcher_ = "null") =>
       last_op' \notin NullUseOps]_vars

\* C32 (as stated): on a database builder whose view graph is still empty
\* and whose matcher has not run, ExtractAndMatchFeatures completes and
\* returns true whatever names the database holds priors and matches for.
C32_ExtractCompletes ==
  [][(/\ pc = "idle"
      /\ track_builder_.present
      /\ feature_extractor_and_matcher_ = "ready"
      /\ ViewGraphNumViews(view_graph_) = 0
      /\ last_op' \in ExtractAndMatchOps) =>
       /\ pc' = "idle"
       /\ ret' = "true"
       /\ last_op' = "ExtractAndMatchFeatures"]_vars
====
